---- MODULE Spec2Model ----
(***************************************************************************)
(* A model of the usa_macro_pulse data pipeline: acquisition                *)
(* (collect_data.py), normalization (processed_data.py), forecasting        *)
(* (forecast_data.py) and the two orchestrators (app.py start-up,           *)
(* scheduler.py).                                                           *)
(*                                                                          *)
(* Time is counted in ticks; DayTicks ticks make one calendar day, so a     *)
(* timestamp t falls on calendar day t \div DayTicks and is at midnight     *)
(* when t % DayTicks = 0.  Prices are positive integers.                    *)
(***************************************************************************)
EXTENDS Integers, Sequences, FiniteSets, TLC

(***************************************************************************)
(* Bounds of the model.                                                     *)
(***************************************************************************)
\* ticks per calendar day (resolution of a timestamp's time of day)
DayTicks == 2
\* instruments of CRYPTO_MAP taken into the model
NumInstruments == 2
\* rows of one API payload
MaxPayload == 2
\* pipeline invocations in one behaviour
MaxRuns == 2
\* an acquisition-shaped raw file: at most MaxRows rows on days 0..MaxDay
MaxRows == 3
MaxDay == 8
\* prices are 1..MaxPrice
MaxPrice == 2
\* a hand-made raw file: at most HetMaxRows rows at ticks 0..HetMaxTick
HetMaxRows == 2
HetMaxTick == 3
\* columns of a raw file with a foreign header
MaxCols == 2
\* a processed file handed to forecasting: days 0..FcMaxDay
FcMaxDay == 6

(***************************************************************************)
(* Program constants.                                                       *)
(***************************************************************************)
retries == 3
FORECAST_STEPS == 30
MinPoints == 7
DailyLag == 1
WeeklyLag == 7
MonthlyLag == 30

\* pandas' missing values: NaT in a datetime column, NaN in a numeric one.
NaT == 0 - 1
NaN == 0 - 1
\* a price cell that is text and not a number ("n/a"): dropna keeps it,
\* to_numeric(errors="coerce") turns it into NaN.
Bad == 0 - 2
\* the symbol of a row that asfreq synthesized, before ffill/bfill
NoSym == ""

CRYPTO_MAP_ALL == <<"BITCOIN", "ETHEREUM", "BINANCECOIN", "SOLANA", "RIPPLE">>
Min(a, b) == IF a < b THEN a ELSE b
CRYPTO_MAP == SubSeq(CRYPTO_MAP_ALL, 1, Min(NumInstruments, Len(CRYPTO_MAP_ALL)))
Symbols == {CRYPTO_MAP[i] : i \in 1..Len(CRYPTO_MAP)}

DayOf(t) == t \div DayTicks

(***************************************************************************)
(* Column headers.  A header is its trimmed lower-case text (base), whether *)
(* the file spells it with capitals (upper) and whether it carries          *)
(* surrounding blanks (pad).  str.strip() and str.lower() act on those.     *)
(***************************************************************************)
Header(b, u, p) == [base |-> b, upper |-> u, pad |-> p]
Plain(b) == Header(b, FALSE, FALSE)
Strip(h) == [h EXCEPT !.pad = FALSE]
Lower(h) == [h EXCEPT !.upper = FALSE]

DateAliases == {Plain("date"), Plain("datetime")}
PriceAliases == {Plain("price"), Plain("close"), Plain("adj close")}
Required == {Plain("date"), Plain("symbol"), Plain("price")}

(***************************************************************************)
(* A data frame read from a raw file: name is the file's base name,         *)
(* columns a sequence of [name: header, field: the data the column          *)
(* carries], rows a sequence of [date, symbol, price].  A column of field   *)
(* "fname" holds the file's base name in every row.                         *)
(***************************************************************************)
NoFile == [kind |-> "nofile"]
Unreadable == [kind |-> "unreadable"]
Frame(n, cols, rws) == [kind |-> "frame", name |-> n, columns |-> cols, rows |-> rws]
\* a file of the processed or the forecasted directory
Csv(rws) == [kind |-> "csv", rows |-> rws]
Col(h, f) == [name |-> h, field |-> f]
CanonicalColumns ==
    <<Col(Plain("date"), "date"), Col(Plain("symbol"), "symbol"), Col(Plain("price"), "price")>>

ColumnNames(cols) == {cols[i].name : i \in 1..Len(cols)}
SelectIdxCaseSensitive(cols, names) == {i \in 1..Len(cols) : cols[i].name \in names}
SelectIdx(cols, names) == {i \in 1..Len(cols) : Lower(cols[i].name) \in names}
FirstIdx(S) == CHOOSE i \in S : \A j \in S : i <= j
Rename(cols, old, new) ==
    [i \in 1..Len(cols) |-> IF cols[i].name = old THEN [cols[i] EXCEPT !.name = new] ELSE cols[i]]

\* df.columns = [c.strip() for c in df.columns]
StripColumns(cols) == [i \in 1..Len(cols) |-> [cols[i] EXCEPT !.name = Strip(@)]]

\* the alias rename of validate_and_fix_columns, for the date and the price column
RenameAlias(cols, aliases, target) ==
    LET possible == SelectIdx(cols, aliases)
    IN  IF possible # {} /\ target \notin ColumnNames(cols)
        THEN Rename(cols, cols[FirstIdx(possible)].name, target)
        ELSE cols

AddSymbol(cols) ==
    IF Plain("symbol") \notin ColumnNames(cols)
    THEN Append(cols, Col(Plain("symbol"), "fname"))
    ELSE cols

validate_and_fix_columns(cols) ==
    AddSymbol(RenameAlias(RenameAlias(StripColumns(cols), DateAliases, Plain("date")),
                          PriceAliases, Plain("price")))

(***************************************************************************)
(* process_file.                                                            *)
(***************************************************************************)
ColNamed(cols, h) == cols[CHOOSE i \in 1..Len(cols) : cols[i].name = h]
Cell(df, r, c) == IF c.field = "fname" THEN df.name ELSE r[c.field]

\* the rows of df seen through the columns named date, symbol, price
Project(df, cols) ==
    [i \in 1..Len(df.rows) |->
        [date |-> Cell(df, df.rows[i], ColNamed(cols, Plain("date"))),
         symbol |-> Cell(df, df.rows[i], ColNamed(cols, Plain("symbol"))),
         price |-> Cell(df, df.rows[i], ColNamed(cols, Plain("price")))]]

\* df.dropna(subset=["date", "price"])
DropNa(rws) == SelectSeq(rws, LAMBDA r : r.date # NaT /\ r.price # NaN)

RECURSIVE Insert(_, _)
Insert(r, s) ==
    IF s = <<>> THEN <<r>>
    ELSE IF r.date < Head(s).date THEN <<r>> \o s
    ELSE <<Head(s)>> \o Insert(r, Tail(s))

\* sort_values("date")
RECURSIVE SortByDate(_)
SortByDate(rws) ==
    IF rws = <<>> THEN <<>>
    ELSE Insert(rws[Len(rws)], SortByDate(SubSeq(rws, 1, Len(rws) - 1)))

HasDuplicateDates(rws) == \E i, j \in 1..Len(rws) : i # j /\ rws[i].date = rws[j].date

\* set_index("date").asfreq("D") of sorted rows with distinct dates: one row
\* every DayTicks ticks from the first date to the last; a date the source
\* lacks gets a row of missing values.
AsFreq(rws) ==
    LET first == rws[1].date
        last == rws[Len(rws)].date
        n == (last - first) \div DayTicks + 1
    IN  [k \in 1..n |->
            LET d == first + (k - 1) * DayTicks
            IN  IF \E i \in 1..Len(rws) : rws[i].date = d
                THEN rws[CHOOSE i \in 1..Len(rws) : rws[i].date = d]
                ELSE [date |-> d, symbol |-> NoSym, price |-> NaN]]

\* pd.to_numeric(errors="coerce")
ToNumeric(p) == IF p = Bad THEN NaN ELSE p

\* Series.ffill() and Series.bfill() on a sequence of values with a missing mark
Ffill(s, missing) ==
    [i \in 1..Len(s) |->
        IF \E j \in 1..i : s[j] # missing
        THEN s[CHOOSE j \in 1..i : s[j] # missing /\ \A k \in (j + 1)..i : s[k] = missing]
        ELSE missing]
Bfill(s, missing) ==
    [i \in 1..Len(s) |->
        IF \E j \in i..Len(s) : s[j] # missing
        THEN s[CHOOSE j \in i..Len(s) : s[j] # missing /\ \A k \in i..(j - 1) : s[k] = missing]
        ELSE missing]
FillBackwardFirst(s, missing) == Ffill(Bfill(s, missing), missing)
FillBoth(s, missing) == Bfill(Ffill(s, missing), missing)

\* A percentage change as the exact fraction num/den; den = 0 is NaN.
Undefined == [num |-> 0, den |-> 0]
\* price.pct_change(lag) * 100 at row i
PctChange(p, lag, i) ==
    IF i - lag >= 1 /\ p[i] # NaN /\ p[i - lag] # NaN
    THEN [num |-> (p[i] - p[i - lag]) * 100, den |-> p[i - lag]]
    ELSE Undefined

None(why) == [kind |-> "none", why |-> why]
Raise(why) == [kind |-> "raise", why |-> why]
Ok(rws) == [kind |-> "ok", rows |-> rws]

\* the daily-frequency part of process_file, on cleaned and sorted rows
Processed(rws) ==
    LET g == AsFreq(rws)
        sym == FillBoth([i \in 1..Len(g) |-> g[i].symbol], NoSym)
        price == FillBoth([i \in 1..Len(g) |-> ToNumeric(g[i].price)], NaN)
    IN  [i \in 1..Len(g) |->
            [date |-> g[i].date, symbol |-> sym[i], price |-> price[i],
             daily |-> PctChange(price, DailyLag, i),
             weekly |-> PctChange(price, WeeklyLag, i),
             monthly |-> PctChange(price, MonthlyLag, i)]]

process_file(df) ==
    IF df.kind = "unreadable" THEN None("unreadable")
    ELSE IF df.rows = <<>> \/ df.columns = <<>> THEN None("empty")
    ELSE LET cols == validate_and_fix_columns(df.columns)
         IN  IF ~(Required \subseteq ColumnNames(cols)) THEN None("schema")
             ELSE LET clean == SortByDate(DropNa(Project(df, cols)))
                  IN  IF clean = <<>> THEN None("norows")
                      ELSE IF HasDuplicateDates(clean) THEN Raise("duplicate dates")
                      ELSE Ok(Processed(clean))

(***************************************************************************)
(* State.  raw, processed and forecasted are the three data directories: a  *)
(* file per base name (raw, processed) or per symbol (forecasted), NoFile   *)
(* when absent.  writtenToday tells whether the latest write into the       *)
(* processed directory (max of os.path.getmtime over its files) happened on *)
(* the current calendar day.                                                *)
(* procRes records, for the latest run of processed_data.main, what became  *)
(* of each raw file: "unrun" (never reached), "written", "raised" (an       *)
(* exception left process_file) or the reason process_file returned None.   *)
(* fcRes records, for the latest run of forecast_data.main, what became of   *)
(* each symbol group: "unrun", "written", "raised", "guard" (prepare_series *)
(* returned None) or "fit" (the model fit raised, which was caught).        *)
(***************************************************************************)
(* pc is where the running invocation stands ("idle" between invocations,   *)
(* "collect" inside collect_data.main, "collected" and "processed" after    *)
(* the first and the second stage), invoker who started it, stages the      *)
(* stages it has executed, runs the invocations started so far.             *)
(* Inside collect_data.main: idx is the instrument being fetched, attempt   *)
(* the loop variable of fetch_crypto, requests the HTTP requests the        *)
(* current (or, once it returned, the last) fetch_crypto call has issued,   *)
(* resp the last response, ret what the call returned ("pending" while it   *)
(* runs), fetchRes what this run did with each instrument.                  *)
(***************************************************************************)
VARIABLES raw, processed, forecasted, procRes, fcRes, writtenToday,
          pc, invoker, stages, runs, idx, attempt, requests, resp, ret, fetchRes

fetch == <<idx, attempt, requests, resp, ret, fetchRes>>
vars == <<raw, processed, forecasted, procRes, fcRes, writtenToday,
          pc, invoker, stages, runs, idx, attempt, requests, resp, ret, fetchRes>>

NoResp == [kind |-> "none", prices |-> <<>>]
FetchIdle ==
    /\ idx = 1 /\ attempt = 1 /\ requests = 0 /\ resp = NoResp /\ ret = "pending"
    /\ fetchRes = [s \in Symbols |-> "unrun"]
Unrun == [s \in Symbols |-> "unrun"]
\* fetch_crypto's and collect_data.main's locals, before the first call
ResetFetch ==
    /\ idx' = 1 /\ attempt' = 1 /\ requests' = 0 /\ resp' = NoResp /\ ret' = "pending"
    /\ fetchRes' = Unrun

Present(dir) == {f \in DOMAIN dir : dir[f] # NoFile}

\* every order in which glob.glob may list the files of S
Orders(S) ==
    {o \in [1..Cardinality(S) -> S] : \A i, j \in 1..Cardinality(S) : i # j => o[i] # o[j]}

ResultTag(r) == IF r.kind = "ok" THEN "written" ELSE IF r.kind = "raise" THEN "raised" ELSE r.why

\* save_processed(df, filename)
save_processed(dir, r, f) == IF r.kind = "ok" THEN [dir EXCEPT ![f] = Csv(r.rows)] ELSE dir

\* the loop of processed_data.main over the files in glob order: the state
\* [dir, res] after the files order[k..]; an exception ends the loop (and main).
RECURSIVE ProcessLoop(_, _, _, _)
ProcessLoop(order, k, dir, res) ==
    IF k > Len(order) THEN [dir |-> dir, res |-> res]
    ELSE LET f == order[k]
             r == process_file(raw[f])
         IN  IF r.kind = "raise"
             THEN [dir |-> dir, res |-> [res EXCEPT ![f] = "raised"]]
             ELSE ProcessLoop(order, k + 1, save_processed(dir, r, f),
                              [res EXCEPT ![f] = ResultTag(r)])

\* processed_data.main
ProcessMain ==
    /\ \E order \in Orders(Present(raw)) :
          LET out == ProcessLoop(order, 1, processed, [s \in Symbols |-> "unrun"])
          IN  /\ processed' = out.dir
              /\ procRes' = out.res
              /\ writtenToday' = ((\E f \in Symbols : out.res[f] = "written") \/ writtenToday)
    /\ UNCHANGED <<raw, forecasted, fcRes>>

(***************************************************************************)
(* forecast_data.                                                           *)
(***************************************************************************)
\* prepare_series(df): the cleaned daily price series, None below MinPoints
\* values, or the exception of asfreq on repeated dates
prepare_series(rws) ==
    LET clean == SortByDate(DropNa(rws))
    IN  IF clean = <<>> THEN None("guard")
        ELSE IF HasDuplicateDates(clean) THEN Raise("duplicate dates")
        ELSE LET g == AsFreq(clean)
                 price == FillBoth([i \in 1..Len(g) |-> ToNumeric(g[i].price)], NaN)
             IN  IF Cardinality({i \in 1..Len(g) : price[i] # NaN}) < MinPoints
                 THEN None("guard")
                 ELSE Ok([i \in 1..Len(g) |-> [date |-> g[i].date, price |-> price[i]]])

\* the index of fit.get_forecast(steps).predicted_mean: the daily index of
\* the fitted series y, continued after its last date
ForecastIndexFromLast(y, steps) == [i \in 1..steps |-> y[Len(y)].date + (i - 1) * DayTicks]
ForecastIndex(y, steps) == [i \in 1..steps |-> y[Len(y)].date + i * DayTicks]

\* forecast_one_symbol(symbol, df_symbol); fit is what ARIMA(...).fit() and
\* get_forecast do: "ok", or "error" when they raise
forecast_one_symbol(symbol, rws, fit) ==
    LET y == prepare_series(rws)
    IN  IF y.kind # "ok" THEN y
        ELSE IF fit = "error" THEN None("fit")
        ELSE LET index == ForecastIndex(y.rows, FORECAST_STEPS)
             IN  Ok([i \in 1..Len(index) |-> [date |-> index[i], symbol |-> symbol]])

\* pd.concat of the processed files
RECURSIVE Concat(_, _)
Concat(dir, S) ==
    IF S = {} THEN <<>>
    ELSE LET f == CHOOSE x \in S : TRUE IN dir[f].rows \o Concat(dir, S \ {f})

\* data.groupby("symbol") yields the groups in the order of their keys
Alphabetical == <<"BINANCECOIN", "BITCOIN", "ETHEREUM", "RIPPLE", "SOLANA">>
Group(data, s) == SelectSeq(data, LAMBDA r : r.symbol = s)
GroupKeys(data) == SelectSeq(Alphabetical, LAMBDA s : \E i \in 1..Len(data) : data[i].symbol = s)

FcTag(r) == IF r.kind = "ok" THEN "written" ELSE IF r.kind = "raise" THEN "raised" ELSE r.why

\* the loop of forecast_data.main over the groups; an exception that leaves
\* forecast_one_symbol ends the loop (and main)
RECURSIVE ForecastLoop(_, _, _, _, _, _)
ForecastLoop(data, keys, k, fit, dir, res) ==
    IF k > Len(keys) THEN [dir |-> dir, res |-> res]
    ELSE LET s == keys[k]
             r == forecast_one_symbol(s, Group(data, s), fit[s])
         IN  IF r.kind = "raise"
             THEN [dir |-> dir, res |-> [res EXCEPT ![s] = "raised"]]
             ELSE ForecastLoop(data, keys, k + 1, fit,
                               IF r.kind = "ok" THEN [dir EXCEPT ![s] = Csv(r.rows)] ELSE dir,
                               [res EXCEPT ![s] = FcTag(r)])

\* forecast_data.main
ForecastMain ==
    /\ \E fit \in [Symbols -> {"ok", "error"}] :
          LET data == Concat(processed, Present(processed))
              out == ForecastLoop(data, GroupKeys(data), 1, fit, forecasted,
                                  [s \in Symbols |-> "unrun"])
          IN  /\ forecasted' = out.dir
              /\ fcRes' = out.res
    /\ UNCHANGED <<raw, processed, procRes, writtenToday>>

(***************************************************************************)
(* collect_data.                                                            *)
(***************************************************************************)
\* what one requests.get can bring: a non-200 status, a body without prices,
\* an exception (transport, timeout, JSON or reshaping), or prices
Failures == {"status", "empty", "exception"}
\* the "prices" lists of a successful response: [timestamp, price] pairs in
\* the order of their timestamps, from the first day of a window of
\* MinPoints days and otherwise on its last day; a timestamp may repeat
PayloadTicks == {0, (MinPoints - 1) * DayTicks}
Payloads ==
    {p \in UNION {[1..k -> [ts : PayloadTicks, price : {1}]] : k \in 1..MaxPayload} :
        /\ p[1].ts = 0
        /\ \A i \in 1..(Len(p) - 1) : p[i].ts <= p[i + 1].ts}
Responses ==
    {[kind |-> k, prices |-> <<>>] : k \in Failures}
        \cup {[kind |-> "success", prices |-> p] : p \in Payloads}

\* df["date"] = pd.to_datetime(df["timestamp"], unit="ms"); df["symbol"] = symbol;
\* df[["date", "symbol", "price"]]: timestamps are already counted in ticks
Reshape(prices, symbol) ==
    [i \in 1..Len(prices) |-> [date |-> prices[i].ts, symbol |-> symbol, price |-> prices[i].price]]

\* for attempt in range(1, retries + 1): whether the loop has another turn
MoreAttemptsOffByOne(a) == a + 1 \in 1..(retries + 1)
MoreAttempts(a) == a + 1 \in 1..retries

\* the body of main's loop once fetch_crypto has returned df for symbol
SaveAlways(dir, symbol, df) ==
    [dir EXCEPT ![symbol] = Frame(symbol, CanonicalColumns, IF df = <<>> THEN <<>> ELSE df[1])]
SaveRaw(dir, symbol, df) ==
    IF df # <<>> THEN [dir EXCEPT ![symbol] = Frame(symbol, CanonicalColumns, df[1])] ELSE dir

\* One turn of fetch_crypto's loop for instrument CRYPTO_MAP[idx], with the
\* response r: a failure of any kind goes to the next attempt, or returns
\* None when there is none; prices return the reshaped rows.  When the call
\* returns, main saves (or not) and goes on to the next instrument; after
\* the last one collect_data.main is over.  df is <<>> for None, <<rows>>
\* for a frame.
FetchReturns(symbol, df) ==
    /\ ret' = IF df = <<>> THEN "none" ELSE "rows"
    /\ raw' = SaveRaw(raw, symbol, df)
    /\ fetchRes' = [fetchRes EXCEPT ![symbol] = IF df = <<>> THEN "skipped" ELSE "saved"]
    /\ attempt' = 1
    /\ idx' = IF idx < Len(CRYPTO_MAP) THEN idx + 1 ELSE 1
    /\ pc' = IF idx < Len(CRYPTO_MAP) THEN "collect" ELSE "collected"

FetchAttempt ==
    /\ pc = "collect"
    /\ \E r \in Responses :
          /\ resp' = r
          /\ requests' = (IF ret = "pending" THEN requests ELSE 0) + 1
          /\ IF r.kind \in Failures
             THEN IF MoreAttempts(attempt)
                  THEN /\ attempt' = attempt + 1
                       /\ ret' = "pending"
                       /\ UNCHANGED <<raw, idx, fetchRes, pc>>
                  ELSE FetchReturns(CRYPTO_MAP[idx], <<>>)
             ELSE FetchReturns(CRYPTO_MAP[idx], <<Reshape(r.prices, CRYPTO_MAP[idx])>>)
    /\ UNCHANGED <<processed, forecasted, procRes, fcRes, writtenToday, invoker, stages, runs>>

\* python src/collect_data.py
RunCollect ==
    /\ pc \in {"idle", "collected"}
    /\ pc' = "collect"
    /\ ResetFetch
    /\ UNCHANGED <<raw, processed, forecasted, procRes, fcRes, writtenToday, invoker, stages, runs>>

(***************************************************************************)
(* The orchestrators.                                                       *)
(***************************************************************************)
\* app.data_is_fresh()
data_is_fresh == Present(processed) # {} /\ writtenToday

StartPipeline(who) ==
    /\ pc = "idle"
    /\ runs < MaxRuns
    /\ runs' = runs + 1
    /\ invoker' = who
    /\ pc' = "collect"
    /\ stages' = <<"Acquisition">>
    /\ ResetFetch
    /\ UNCHANGED <<raw, processed, forecasted, procRes, fcRes, writtenToday>>

\* the dashboard starts: collect_main(), process_main(), forecast_main()
\* unless the data is fresh
AppStart == ~data_is_fresh /\ StartPipeline("app")

\* scheduler.run_pipeline, at 09:00
SchedulerRun == StartPipeline("scheduler")

\* the files of src/ that the scheduler's subprocesses can run
SrcScripts == {"app.py", "collect_data.py", "forecast_data.py", "processed_data.py", "scheduler.py"}
\* the script run_pipeline names for each stage
SchedulerScript(stage) ==
    CASE stage = "Acquisition" -> "collect_data.py"
      [] stage = "Normalization" -> "processed_data.py"
      [] stage = "Forecasting" -> "forecast.py"

Raised(res) == \E s \in Symbols : res[s] = "raised"

\* process_main() of the app, or the scheduler's second subprocess.  An
\* exception out of process_main ends the app's module code; the scheduler
\* goes on to its next subprocess whatever the exit status.
ProcessStage ==
    /\ pc = "collected"
    /\ ProcessMain
    /\ ResetFetch
    /\ stages' = Append(stages, "Normalization")
    /\ pc' = IF invoker = "app" /\ Raised(procRes') THEN "idle" ELSE "processed"
    /\ UNCHANGED <<invoker, runs>>

\* forecast_main() of the app
AppForecast ==
    /\ pc = "processed" /\ invoker = "app"
    /\ ForecastMain
    /\ stages' = Append(stages, "Forecasting")
    /\ pc' = "idle"
    /\ UNCHANGED <<invoker, runs, fetch>>

\* the scheduler's third subprocess: python runs the script if it exists
SchedulerForecast ==
    /\ pc = "processed" /\ invoker = "scheduler"
    /\ IF SchedulerScript("Forecasting") \in SrcScripts
       THEN ForecastMain /\ stages' = Append(stages, "Forecasting")
       ELSE UNCHANGED <<raw, processed, forecasted, procRes, fcRes, writtenToday, stages>>
    /\ pc' = "idle"
    /\ UNCHANGED <<invoker, runs, fetch>>

\* midnight passes between two invocations
DayPasses ==
    /\ pc = "idle"
    /\ writtenToday
    /\ writtenToday' = FALSE
    /\ UNCHANGED <<raw, processed, forecasted, procRes, fcRes, pc, invoker, stages, runs, fetch>>

Init ==
    /\ raw = [s \in Symbols |-> NoFile]
    /\ processed = [s \in Symbols |-> NoFile]
    /\ forecasted = [s \in Symbols |-> NoFile]
    /\ procRes = Unrun
    /\ fcRes = Unrun
    /\ writtenToday = FALSE
    /\ pc = "idle" /\ invoker = "none" /\ stages = <<>> /\ runs = 0
    /\ FetchIdle

\* collect_data.py run as a script, any number of times
NextCollect == RunCollect \/ FetchAttempt
SpecCollect == Init /\ [][NextCollect]_vars

Next ==
    \/ AppStart
    \/ SchedulerRun
    \/ FetchAttempt
    \/ ProcessStage
    \/ AppForecast
    \/ SchedulerForecast
    \/ DayPasses

Spec == Init /\ [][Next]_vars

(***************************************************************************)
(* Raw files the normalization stage may meet.                              *)
(***************************************************************************)
\* the days of D in increasing order
RECURSIVE Ascending(_)
Ascending(D) ==
    IF D = {} THEN <<>>
    ELSE LET m == CHOOSE d \in D : \A e \in D : e <= d
         IN  Append(Ascending(D \ {m}), m)

\* a file as collect_data writes it: date, symbol, price; midnight timestamps
\* in increasing order on the days D (days may be missing), prices p
DaySets == {E \in SUBSET (0..MaxDay) : Cardinality(E) \in 1..MaxRows}
AcquiredFrame(n, D, p) ==
    LET days == Ascending(D)
    IN  Frame(n, CanonicalColumns,
              [i \in 1..Len(days) |->
                  [date |-> days[i] * DayTicks, symbol |-> n, price |-> p[days[i]]]])

\* hand-made files with the canonical header: rows in any order, timestamps
\* at any time of day, repeated or unparseable dates, missing or textual
\* prices, rows of another symbol
OtherSymbol(n) == CHOOSE s \in Symbols : s # n
IrregularRows(n) ==
    [date : {NaT} \cup 0..HetMaxTick, symbol : {n, OtherSymbol(n)}, price : {NaN, Bad, 1}]

\* files with foreign headers, holding one row or none
HeaderBases == {"date", "datetime", "price", "close", "adj close", "symbol", "volume"}
FieldOf(b) ==
    IF b \in {"date", "datetime"} THEN "date"
    ELSE IF b = "symbol" THEN "symbol" ELSE "price"
ColumnChoices == {Col(Header(b, u, p), FieldOf(b)) : b \in HeaderBases, u \in BOOLEAN, p \in BOOLEAN}
DistinctNames(c) == \A i, j \in 1..Len(c) : i # j => Strip(c[i].name) # Strip(c[j].name)
ForeignRows(n) == {<<>>, <<[date |-> 0, symbol |-> n, price |-> 1]>>}

OnlyFile(df) == [s \in Symbols |-> IF s = CRYPTO_MAP[1] THEN df ELSE NoFile]

InitNorm ==
    /\ \/ \E D \in DaySets : \E p \in [D -> 1..MaxPrice] :
             raw = OnlyFile(AcquiredFrame(CRYPTO_MAP[1], D, p))
       \/ \E k \in 0..HetMaxRows : \E rws \in [1..k -> IrregularRows(CRYPTO_MAP[1])] :
             raw = OnlyFile(Frame(CRYPTO_MAP[1], CanonicalColumns, rws))
       \/ \E k \in 1..MaxCols : \E c \in [1..k -> ColumnChoices] :
             /\ DistinctNames(c)
             /\ \E rws \in ForeignRows(CRYPTO_MAP[1]) : raw = OnlyFile(Frame(CRYPTO_MAP[1], c, rws))
       \/ raw = OnlyFile(Unreadable)
    /\ processed = [s \in Symbols |-> NoFile]
    /\ forecasted = [s \in Symbols |-> NoFile]
    /\ procRes = [s \in Symbols |-> "unrun"]
    /\ fcRes = [s \in Symbols |-> "unrun"]
    /\ writtenToday = FALSE
    /\ pc = "collected" /\ invoker = "none" /\ stages = <<>> /\ runs = 0
    /\ FetchIdle

\* python src/processed_data.py, once
NextNorm == /\ pc = "collected"
            /\ ProcessMain
            /\ pc' = "processed"
            /\ UNCHANGED <<invoker, stages, runs, fetch>>

SpecNorm == InitNorm /\ [][NextNorm]_vars

(***************************************************************************)
(* Processed files the forecasting stage may meet: for each of the days     *)
(* 0..FcMaxDay the file holds no row, a row with a price, a row whose price *)
(* is missing, or two rows of that date.                                    *)
(***************************************************************************)
FcCells == {"absent", "price", "nan", "twice"}
FcRow(n, d, c) ==
    [date |-> d * DayTicks, symbol |-> n, price |-> IF c = "nan" THEN NaN ELSE 1,
     daily |-> Undefined, weekly |-> Undefined, monthly |-> Undefined]
RECURSIVE FcRows(_, _, _)
FcRows(n, cells, d) ==
    IF d > FcMaxDay THEN <<>>
    ELSE (CASE cells[d] = "absent" -> <<>>
            [] cells[d] = "twice" -> <<FcRow(n, d, "price"), FcRow(n, d, "price")>>
            [] OTHER -> <<FcRow(n, d, cells[d])>>) \o FcRows(n, cells, d + 1)

InitFc ==
    /\ raw = [s \in Symbols |-> NoFile]
    /\ \E cells \in [0..FcMaxDay -> FcCells] :
          processed = [s \in Symbols |->
                          IF s = CRYPTO_MAP[1] /\ FcRows(s, cells, 0) # <<>>
                          THEN Csv(FcRows(s, cells, 0)) ELSE NoFile]
    /\ forecasted = [s \in Symbols |-> NoFile]
    /\ procRes = [s \in Symbols |-> "unrun"]
    /\ fcRes = [s \in Symbols |-> "unrun"]
    /\ writtenToday = TRUE
    /\ pc = "processed" /\ invoker = "none" /\ stages = <<>> /\ runs = 0
    /\ FetchIdle

\* python src/forecast_data.py, once
NextFc == /\ pc = "processed"
          /\ ForecastMain
          /\ pc' = "idle"
          /\ UNCHANGED <<invoker, stages, runs, fetch>>

SpecFc == InitFc /\ [][NextFc]_vars

(***************************************************************************)
(* Properties of normalization, checked under SpecNorm.                     *)
(***************************************************************************)
Written(f) == procRes[f] = "written"
\* the rows of raw file f that survive cleaning: what was observed
Observed(f) == DropNa(Project(raw[f], validate_and_fix_columns(raw[f].columns)))
ObservedDates(f) == {Observed(f)[i].date : i \in 1..Len(Observed(f))}
\* row i of processed file f was synthesized by the calendar reindex
GapRow(f, i) == processed[f].rows[i].date \notin ObservedDates(f)
NumericPrices(f) == \A i \in 1..Len(Observed(f)) : Observed(f)[i].price >= 1
SetMin(S) == CHOOSE x \in S : \A y \in S : x <= y
SetMax(S) == CHOOSE x \in S : \A y \in S : y <= x

\* C4: in every processed output, the dates of each symbol are strictly
\* increasing, hold exactly one row per calendar day between their first and
\* last day, and span the days on which the raw file observed that symbol.
DailyCalendar(out, obs, s) ==
    LET I == {i \in 1..Len(out) : out[i].symbol = s}
        days == {DayOf(out[i].date) : i \in I}
        seen == {DayOf(obs[i].date) : i \in {j \in 1..Len(obs) : obs[j].symbol = s}}
    IN  /\ \A i, j \in I : i < j => out[i].date < out[j].date
        /\ \A d \in SetMin(days)..SetMax(days) :
              Cardinality({i \in I : DayOf(out[i].date) = d}) = 1
        /\ seen # {}
        /\ SetMin(days) = SetMin(seen)
        /\ SetMax(days) = SetMax(seen)
C4_GapFreeCalendar ==
    \A f \in Symbols : (Written(f) /\ NumericPrices(f)) =>
        \A s \in {processed[f].rows[i].symbol : i \in 1..Len(processed[f].rows)} :
            DailyCalendar(processed[f].rows, Observed(f), s)

\* C5 as claimed: for a raw file of midnight timestamps and numeric prices,
\* every synthesized row carries the last price observed before it, no row
\* lacks a price, and the three percentage changes of a synthesized row are
\* 0 (or not yet defined, inside the lag's leading window).
IsZero(c) == c.num = 0
Regular(f) ==
    \A i \in 1..Len(Observed(f)) :
        Observed(f)[i].date % DayTicks = 0 /\ Observed(f)[i].price >= 1
LastObservedBefore(f, d) ==
    LET before == {i \in 1..Len(Observed(f)) : Observed(f)[i].date < d}
    IN  Observed(f)[CHOOSE i \in before :
                       \A j \in before : Observed(f)[j].date <= Observed(f)[i].date].price
C5_AllChangesZeroInGap ==
    \A f \in Symbols : (Written(f) /\ Regular(f)) =>
        \A i \in 1..Len(processed[f].rows) :
            /\ processed[f].rows[i].price # NaN
            /\ GapRow(f, i) =>
                  /\ processed[f].rows[i].price = LastObservedBefore(f, processed[f].rows[i].date)
                  /\ IsZero(processed[f].rows[i].daily)
                  /\ IsZero(processed[f].rows[i].weekly)
                  /\ IsZero(processed[f].rows[i].monthly)

\* C5 as amended: for a raw file whose prices are all numeric, every
\* synthesized row carries the price of the processed row before it, no row
\* lacks a price, and Daily_Change_% of a synthesized row is exactly 0.
C5_DailyChangeZeroInGap ==
    \A f \in Symbols : (Written(f) /\ NumericPrices(f)) =>
        \A i \in 1..Len(processed[f].rows) :
            /\ processed[f].rows[i].price # NaN
            /\ GapRow(f, i) =>
                  /\ i > 1
                  /\ processed[f].rows[i].price = processed[f].rows[i - 1].price
                  /\ processed[f].rows[i].daily = [num |-> 0, den |-> processed[f].rows[i].price]
\* a synthesized row whose daily change is 0 while its weekly change is
\* defined and not 0
C5_Witness ==
    \E f \in Symbols : Written(f) /\ NumericPrices(f) /\
        \E i \in 1..Len(processed[f].rows) :
            /\ GapRow(f, i)
            /\ processed[f].rows[i].daily.num = 0
            /\ processed[f].rows[i].weekly.den # 0 /\ processed[f].rows[i].weekly.num # 0

\* C6: a raw file is rejected for its schema exactly when, after trimming
\* and ignoring case, it has no date/datetime column or no
\* price/close/adj close column (the symbol is synthesized from the file
\* name); a rejected file gets no processed file.
HasAlias(df, aliases) == \E i \in 1..Len(df.columns) : Lower(Strip(df.columns[i].name)) \in aliases
TriplePresent(df) == HasAlias(df, DateAliases) /\ HasAlias(df, PriceAliases)
NonEmpty(df) == df.kind = "frame" /\ df.rows # <<>> /\ df.columns # <<>>
C6_SchemaRejection ==
    \A f \in Symbols : (NonEmpty(raw[f]) /\ procRes[f] # "unrun") =>
        /\ ~TriplePresent(raw[f]) => (procRes[f] = "schema" /\ processed[f] = NoFile)
        /\ ~HasAlias(raw[f], DateAliases) => (procRes[f] = "schema" /\ processed[f] = NoFile)
        /\ TriplePresent(raw[f]) => procRes[f] # "schema"
\* a file with a price column under a capitalised alias and no date column
\* was rejected, and nothing was written for it
C6_Witness ==
    \E f \in Symbols :
        /\ NonEmpty(raw[f]) /\ procRes[f] = "schema" /\ processed[f] = NoFile
        /\ HasAlias(raw[f], PriceAliases) /\ ~HasAlias(raw[f], DateAliases)
\* a file whose date and price columns both needed the alias rename was accepted
C6_WitnessAccepted ==
    \E f \in Symbols :
        /\ NonEmpty(raw[f]) /\ Written(f)
        /\ Plain("date") \notin ColumnNames(raw[f].columns)
        /\ Plain("price") \notin ColumnNames(raw[f].columns)

(***************************************************************************)
(* Properties of forecasting, checked under SpecFc.                         *)
(***************************************************************************)
AllRows == Concat(processed, Present(processed))
\* the price observations of symbol s in the processed data
Observations(s) == SelectSeq(AllRows, LAMBDA r : r.symbol = s /\ r.price # NaN)

\* C7: a symbol with fewer than 7 price observations is never fitted and
\* gets no forecast file.
C7_FewObservationsNoForecast ==
    \A s \in Symbols :
        (fcRes[s] # "unrun" /\ Len(Observations(s)) < 7) =>
            (fcRes[s] \notin {"written", "fit"} /\ forecasted[s] = NoFile)

\* C8: a forecast file that was written has exactly 30 rows, all of the
\* group's symbol, on the 30 consecutive days after the last observed date.
C8_ThirtyDaysAfterLast ==
    \A s \in Symbols : fcRes[s] = "written" =>
        LET out == forecasted[s].rows
            last == SetMax({Observations(s)[i].date : i \in 1..Len(Observations(s))})
        IN  /\ Len(out) = 30
            /\ \A i \in 1..Len(out) : out[i].symbol = s
            /\ out[1].date = last + DayTicks
            /\ \A i \in 1..(Len(out) - 1) : out[i + 1].date = out[i].date + DayTicks
\* a forecast file was written for a series that needed gap filling
C8_Witness ==
    \E s \in Symbols :
        /\ fcRes[s] = "written" /\ forecasted[s] # NoFile
        /\ Len(Observations(s)) < FcMaxDay + 1

(***************************************************************************)
(* Properties of acquisition, checked under SpecCollect.                    *)
(***************************************************************************)
\* C1: a call of fetch_crypto issues at most retries requests; after a
\* failure of any kind it goes on while attempts remain; it returns the rows
\* at the first success, and None only after exactly retries failures.
C1_RetryBound ==
    /\ requests <= retries
    /\ ret = "pending" /\ requests > 0 => resp.kind \in Failures /\ requests < retries
    /\ ret = "pending" => attempt = requests + 1
    /\ ret = "rows" => resp.kind = "success"
    /\ ret = "none" => resp.kind \in Failures /\ requests = retries
\* the first instrument used up its attempts and the second one succeeded
\* at its second request
C1_Witness ==
    /\ pc = "collected"
    /\ fetchRes[CRYPTO_MAP[1]] = "skipped"
    /\ ret = "rows" /\ requests = 2

\* C2: when a call of fetch_crypto returns None the raw directory is left as
\* it was; when it returns rows the instrument's raw file becomes exactly
\* those rows; either way main goes on to the next instrument, and it ends
\* only when every instrument of the mapping has been fetched.
C2_SkipOrReplace ==
    [][(pc = "collect" /\ ret' # "pending") =>
          LET symbol == CRYPTO_MAP[idx]
          IN  /\ ret' = "none" => raw' = raw
              /\ ret' = "rows" =>
                    raw' = [raw EXCEPT ![symbol] =
                               Frame(symbol, CanonicalColumns, Reshape(resp'.prices, symbol))]
              /\ idx < Len(CRYPTO_MAP) => pc' = "collect" /\ idx' = idx + 1
              /\ pc' = "collected" => \A s \in Symbols : fetchRes'[s] \in {"saved", "skipped"}]_vars
\* a run in which the first instrument, which has a raw file of an earlier
\* run, is skipped and the second one is saved
C2_Witness ==
    /\ pc = "collected"
    /\ fetchRes[CRYPTO_MAP[1]] = "skipped" /\ raw[CRYPTO_MAP[1]] # NoFile
    /\ fetchRes[CRYPTO_MAP[2]] = "saved"

(***************************************************************************)
(* Properties of the pipeline, checked under Spec.                          *)
(***************************************************************************)
\* C3: no exception leaves the handling of a raw file or of a symbol group:
\* normalization and forecasting never abort, and a finished normalization
\* has handled every raw file.
C3_NoExceptionCrossesBoundary ==
    /\ ~Raised(procRes) /\ ~Raised(fcRes)
    /\ pc = "processed" => \A f \in Present(raw) : procRes[f] # "unrun"

\* C9: when the latest normalization (forecasting) run came to its end, the
\* processed (forecast) directory holds a file only for a unit that
\* succeeded in that run.
C9_WholesaleRegeneration ==
    /\ (procRes # Unrun /\ ~Raised(procRes)) =>
           \A f \in Symbols : processed[f] # NoFile => procRes[f] = "written"
    /\ (fcRes # Unrun /\ ~Raised(fcRes)) =>
           \A s \in Symbols : forecasted[s] # NoFile => fcRes[s] = "written"

\* C10: an invocation of the pipeline in which no stage raised has run
\* Acquisition, Normalization and Forecasting, in this order, when it ends.
C10_ThreeStagesInOrder ==
    (pc = "idle" /\ invoker # "none" /\ ~Raised(procRes)) =>
        stages = <<"Acquisition", "Normalization", "Forecasting">>
====
